---- MODULE Spec2Model ----
(***************************************************************************)
(* A model of InterestingFilesModule.cpp: the interesting-file-set         *)
(* compiler run by initialize(), the query/report loop of report(), and    *)
(* finalize().  Strings are sequences of one-character strings, so that    *)
(* the character tests of the code (find_first_of, extension[0], the LIKE  *)
(* escapes) are computed and not assumed.                                  *)
(***************************************************************************)
EXTENDS Integers, Sequences, FiniteSets, TLC

VARIABLES
    fileSets,               \* std::vector<InterestingFilesSet> fileSets
    setNames,               \* static std::set<std::string> setNames (isValidSetName)
    defaultSetNumber,       \* static unsigned long defaultSetNumber
    lastOp,                 \* the module API function that returned last
    returnCode,             \* the TskModule::Status it returned
    configDoc,              \* the parsed config document of the last initialize()
    preSetNames,            \* setNames when the last initialize() was entered
    preDefaultSetNumber,    \* defaultSetNumber when the last initialize() was entered
    log,                    \* per INTERESTING_FILE_SET of configDoc: name used, outcome logged
    queried,                \* getFileIds() calls of the last report(), in call order
    findings,               \* blackboard artifacts created by the last report(), in order
    errorLog,               \* conditions whose catch block ran in the last report()
    inits,                  \* number of initialize() calls so far
    likeKind, likeText, likeSubject, likePattern, likeResult, likePc
                            \* the pattern builder and the LIKE operator run on their own

vars == <<fileSets, setNames, defaultSetNumber, lastOp, returnCode, configDoc,
          preSetNames, preDefaultSetNumber, log, queried, findings, errorLog,
          inits, likeKind, likeText, likeSubject, likePattern, likeResult, likePc>>

moduleVars == <<fileSets, setNames, defaultSetNumber, lastOp, returnCode, configDoc,
                preSetNames, preDefaultSetNumber, log, queried, findings, errorLog,
                inits>>

likeVars == <<likeKind, likeText, likeSubject, likePattern, likeResult, likePc>>

(***************************************************************************)
(* Bounds.                                                                 *)
(***************************************************************************)
MaxSets == 2            \* INTERESTING_FILE_SET elements in one config document
MaxInits == 2           \* initialize() calls in one process
MaxQueryFaults == 1     \* conditions whose query throws in one report()
MaxTextLen == 2         \* characters of an extension / pathFilter value
MaxSubjectLen == 3      \* characters of a file name / path matched against it

(***************************************************************************)
(* Strings.                                                                *)
(***************************************************************************)
Digit(d) == <<"0", "1", "2", "3", "4", "5", "6", "7", "8", "9">>[d + 1]

\* operator<<(unsigned long) on a stringstream: the decimal numeral
RECURSIVE ToDecimal(_)
ToDecimal(n) ==
    IF n < 10 THEN <<Digit(n)>> ELSE ToDecimal(n \div 10) \o <<Digit(n % 10)>>

\* SQL UPPER() on one ASCII character of the alphabets used here
UpperChar(c) ==
    CASE c = "a" -> "A"
      [] c = "b" -> "B"
      [] c = "u" -> "U"
      [] c = "v" -> "V"
      [] c = "x" -> "X"
      [] OTHER -> c

UPPER(s) == [i \in 1..Len(s) |-> UpperChar(s[i])]

IsSuffix(t, s) ==
    /\ Len(t) <= Len(s)
    /\ \A i \in 1..Len(t) : s[Len(s) - Len(t) + i] = t[i]

IsSubstring(t, s) ==
    \E k \in 0..(Len(s) - Len(t)) : \A i \in 1..Len(t) : s[k + i] = t[i]

SeqsUpTo(S, n) == UNION {[1..k -> S] : k \in 0..n}

(***************************************************************************)
(* addEscapesToPattern and the LIKE operator it feeds.                     *)
(***************************************************************************)
addEscapesToPatternNoUnderscore(inputPattern) ==
    LET RECURSIVE Go(_)
        Go(i) ==
            IF i > Len(inputPattern) THEN <<>>
            ELSE LET c == inputPattern[i]
                 IN  (IF c = "%" \/ c = "#" THEN <<"#", c>> ELSE <<c>>) \o Go(i + 1)
    IN  Go(1)

addEscapesToPattern(inputPattern) ==
    LET RECURSIVE Go(_)
        Go(i) ==
            IF i > Len(inputPattern) THEN <<>>
            ELSE LET c == inputPattern[i]
                 IN  (IF c = "_" \/ c = "%" \/ c = "#" THEN <<"#", c>> ELSE <<c>>)
                     \o Go(i + 1)
    IN  Go(1)

\* subject LIKE pattern ESCAPE esc, as the SQL engine evaluates it: % matches any
\* run of characters, _ any one character, esc makes the next character literal.
RECURSIVE Like(_, _, _, _, _)
Like(pattern, i, subject, j, esc) ==
    IF i > Len(pattern) THEN j > Len(subject)
    ELSE IF pattern[i] = esc /\ i < Len(pattern)
         THEN /\ j <= Len(subject)
              /\ subject[j] = pattern[i + 1]
              /\ Like(pattern, i + 2, subject, j + 1, esc)
    ELSE IF pattern[i] = "%"
         THEN \E k \in j..(Len(subject) + 1) : Like(pattern, i + 1, subject, k, esc)
    ELSE IF pattern[i] = "_"
         THEN j <= Len(subject) /\ Like(pattern, i + 1, subject, j + 1, esc)
    ELSE /\ j <= Len(subject)
         /\ subject[j] = pattern[i]
         /\ Like(pattern, i + 1, subject, j + 1, esc)

\* UPPER(column) LIKE UPPER('<pattern>') ESCAPE '#'
UpperLike(subject, pattern) == Like(UPPER(pattern), 1, UPPER(subject), 1, "#")

\* '%' + addEscapesToPattern(extension), after the leading dot is supplied
ExtensionPattern(text) ==
    LET extension == IF text[1] # "." THEN <<".">> \o text ELSE text
    IN  <<"%">> \o addEscapesToPattern(extension)

\* '%' + addEscapesToPattern(attributeValue) + '%'
PathFilterPattern(attributeValue) ==
    <<"%">> \o addEscapesToPattern(attributeValue) \o <<"%">>

(***************************************************************************)
(* The config document: INTERESTING_FILE_SET elements with their child     *)
(* nodes.  An attribute that is absent and one with an empty value are     *)
(* both the empty string here: the code ignores both.                      *)
(***************************************************************************)
Str_A == <<"A">>
Str_Unnamed_1 == <<"U", "n", "n", "a", "m", "e", "d", "_", "1">>
Str_d == <<"d">>
Str_ab == <<"a", ".", "b">>
Str_b == <<"b">>
Str_dotb == <<".", "b">>
Str_u == <<"u">>
Str_blank == <<" ">>

Node(type, tag, text, path, kind) ==
    [nodeType |-> type, nodeName |-> tag, innerText |-> text,
     pathFilter |-> path, typeFilter |-> kind]

N_ab == Node("ELEMENT_NODE", "NAME", Str_ab, <<>>, "")
N_ab_u == Node("ELEMENT_NODE", "NAME", Str_ab, Str_u, "file")
N_empty == Node("ELEMENT_NODE", "NAME", <<>>, <<>>, "")
N_blank == Node("ELEMENT_NODE", "NAME", Str_blank, <<>>, "")
E_dotb == Node("ELEMENT_NODE", "EXTENSION", Str_dotb, <<>>, "bogus")
E_b_dir == Node("ELEMENT_NODE", "EXTENSION", Str_b, <<>>, "dir")
E_empty == Node("ELEMENT_NODE", "EXTENSION", <<>>, Str_u, "dir")
X_ab == Node("ELEMENT_NODE", "FILENAME", Str_ab, <<>>, "")
T_ws == Node("TEXT_NODE", "#text", Str_blank, <<>>, "")

FileSetDefinition(n, d, c) == [name |-> n, description |-> d, childNodes |-> c]

FileSetDefinitions ==
    { FileSetDefinition(<<>>, <<>>, <<N_ab>>),
      FileSetDefinition(<<>>, <<>>, <<E_dotb, N_ab_u>>),
      FileSetDefinition(<<>>, <<>>, <<T_ws, X_ab, N_empty, E_empty>>),
      FileSetDefinition(Str_A, Str_d, <<N_ab>>),
      FileSetDefinition(Str_A, Str_d, <<>>),
      FileSetDefinition(Str_A, Str_d, <<N_empty, T_ws, E_b_dir>>),
      FileSetDefinition(Str_A, Str_d, <<N_blank>>),
      FileSetDefinition(Str_Unnamed_1, <<>>, <<N_ab>>),
      FileSetDefinition(<<".">>, <<>>, <<N_ab>>),
      FileSetDefinition(<<".", ".">>, <<>>, <<N_ab>>),
      FileSetDefinition(<<"<">>, <<>>, <<N_ab>>),
      FileSetDefinition(<<"A", "/">>, <<>>, <<N_ab>>) }

ConfigDocs == SeqsUpTo(FileSetDefinitions, MaxSets)

(***************************************************************************)
(* The rule-set compiler.                                                  *)
(***************************************************************************)
TSK_FS_META_TYPE_REG == "TSK_FS_META_TYPE_REG"
TSK_FS_META_TYPE_DIR == "TSK_FS_META_TYPE_DIR"

\* The clauses appended to a condition: the LIKE pattern on full_path (<<>> when
\* there is none) and the meta_type required ("" when there is none).
addPathAndTypeFilterOptions(conditionDefinition) ==
    [pathPattern |->
        IF conditionDefinition.pathFilter # <<>>
        THEN PathFilterPattern(conditionDefinition.pathFilter)
        ELSE <<>>,
     metaType |->
        IF conditionDefinition.typeFilter = "file" THEN TSK_FS_META_TYPE_REG
        ELSE IF conditionDefinition.typeFilter = "dir" THEN TSK_FS_META_TYPE_DIR
        ELSE ""]

Condition(kind, arg, options) ==
    [kind |-> kind, arg |-> arg,
     pathPattern |-> options.pathPattern, metaType |-> options.metaType]

\* conditions after the call
compileNameSearchCondition(conditionDefinition, conditions) ==
    LET name == conditionDefinition.innerText
    IN  IF name # <<>>
        THEN Append(conditions,
                    Condition("NAME", name,
                              addPathAndTypeFilterOptions(conditionDefinition)))
        ELSE conditions

compileExtensionSearchCondition(conditionDefinition, conditions) ==
    LET extension == conditionDefinition.innerText
    IN  IF extension # <<>>
        THEN Append(conditions,
                    Condition("EXTENSION", ExtensionPattern(extension),
                              addPathAndTypeFilterOptions(conditionDefinition)))
        ELSE conditions

PathChars == {"<", ">", ":", "\"", "/", "\\", "|", "?", "*"}

isValidSetNameNoDuplicateCheck(setName, names) ==
    IF \E i \in 1..Len(setName) : setName[i] \in PathChars
    THEN [valid |-> FALSE, setNames |-> names, outcome |-> "path character"]
    ELSE IF setName = <<".">> \/ setName = <<".", ".">>
    THEN [valid |-> FALSE, setNames |-> names, outcome |-> "directory alias"]
    ELSE [valid |-> TRUE, setNames |-> names \cup {setName}, outcome |-> "valid"]

\* The result, the static setNames after the call, and the message logged.
isValidSetName(setName, names) ==
    IF \E i \in 1..Len(setName) : setName[i] \in PathChars
    THEN [valid |-> FALSE, setNames |-> names, outcome |-> "path character"]
    ELSE IF setName = <<".">> \/ setName = <<".", ".">>
    THEN [valid |-> FALSE, setNames |-> names, outcome |-> "directory alias"]
    ELSE IF setName \in names
    THEN [valid |-> FALSE, setNames |-> names, outcome |-> "duplicate"]
    ELSE [valid |-> TRUE, setNames |-> names \cup {setName}, outcome |-> "valid"]

\* nameBuilder << "Unnamed_" << defaultSetNumber
DefaultName(number) ==
    <<"U", "n", "n", "a", "m", "e", "d", "_">> \o ToDecimal(number)

PostIncrementNone(number) == number

\* defaultSetNumber++
PostIncrement(number) == number + 1

\* The loop over childNodes() of compileInterestingFilesSet
RECURSIVE compileConditions(_, _, _)
compileConditions(conditionDefinitions, i, conditions) ==
    IF i > Len(conditionDefinitions) THEN conditions
    ELSE LET conditionDefinition == conditionDefinitions[i]
             next ==
                IF conditionDefinition.nodeType # "ELEMENT_NODE" THEN conditions
                ELSE IF conditionDefinition.nodeName = "NAME"
                THEN compileNameSearchCondition(conditionDefinition, conditions)
                ELSE IF conditionDefinition.nodeName = "EXTENSION"
                THEN compileExtensionSearchCondition(conditionDefinition, conditions)
                ELSE conditions
         IN  compileConditions(conditionDefinitions, i + 1, next)

compileInterestingFilesSetSavesEmpty(fileSetDefinition, st) ==
    LET unnamed == fileSetDefinition.name = <<>>
        name == IF unnamed THEN DefaultName(st.defaultSetNumber)
                ELSE fileSetDefinition.name
        number == IF unnamed THEN PostIncrement(st.defaultSetNumber)
                  ELSE st.defaultSetNumber
        check == isValidSetName(name, st.setNames)
        conditions == compileConditions(fileSetDefinition.childNodes, 1, <<>>)
        fileSet == [name |-> name, description |-> fileSetDefinition.description,
                    conditions |-> conditions]
    IN  IF ~check.valid
        THEN [fileSets |-> st.fileSets, setNames |-> check.setNames,
              defaultSetNumber |-> number,
              log |-> Append(st.log, [name |-> name, outcome |-> check.outcome])]
        ELSE [fileSets |-> Append(st.fileSets, fileSet), setNames |-> check.setNames,
              defaultSetNumber |-> number,
              log |-> Append(st.log, [name |-> name, outcome |-> "saved"])]

\* st holds fileSets, setNames, defaultSetNumber and the log; the result is st
\* after the call.
compileInterestingFilesSet(fileSetDefinition, st) ==
    LET unnamed == fileSetDefinition.name = <<>>
        name == IF unnamed THEN DefaultName(st.defaultSetNumber)
                ELSE fileSetDefinition.name
        number == IF unnamed THEN PostIncrement(st.defaultSetNumber)
                  ELSE st.defaultSetNumber
        check == isValidSetName(name, st.setNames)
        conditions == compileConditions(fileSetDefinition.childNodes, 1, <<>>)
        fileSet == [name |-> name, description |-> fileSetDefinition.description,
                    conditions |-> conditions]
    IN  IF ~check.valid
        THEN [fileSets |-> st.fileSets, setNames |-> check.setNames,
              defaultSetNumber |-> number,
              log |-> Append(st.log, [name |-> name, outcome |-> check.outcome])]
        ELSE IF conditions # <<>>
        THEN [fileSets |-> Append(st.fileSets, fileSet), setNames |-> check.setNames,
              defaultSetNumber |-> number,
              log |-> Append(st.log, [name |-> name, outcome |-> "saved"])]
        ELSE [fileSets |-> st.fileSets, setNames |-> check.setNames,
              defaultSetNumber |-> number,
              log |-> Append(st.log, [name |-> name, outcome |-> "empty"])]

\* The loop over getElementsByTagName("INTERESTING_FILE_SET") of initialize
RECURSIVE compileFileSets(_, _, _)
compileFileSets(fileSetDefinitions, i, st) ==
    IF i > Len(fileSetDefinitions) THEN st
    ELSE compileFileSets(fileSetDefinitions, i + 1,
                         compileInterestingFilesSet(fileSetDefinitions[i], st))

clearNothing(v) == v

\* fileSets.clear()
clear(v) == <<>>

(***************************************************************************)
(* The image database and the blackboard, as report() uses them.           *)
(***************************************************************************)
FileStore ==
    { [file_id |-> 7, name |-> <<"a", ".", "b">>,
       full_path |-> <<"/", "u", "/", "a", ".", "b">>,
       meta_type |-> TSK_FS_META_TYPE_REG],
      [file_id |-> 9, name |-> <<"A", ".", "B">>,
       full_path |-> <<"/", "v", "/", "A", ".", "B">>,
       meta_type |-> TSK_FS_META_TYPE_REG],
      [file_id |-> 3, name |-> <<"x", ".", "b">>,
       full_path |-> <<"/", "u", "/", "x", ".", "b">>,
       meta_type |-> TSK_FS_META_TYPE_DIR] }

FileIds == {f.file_id : f \in FileStore}

\* The WHERE clause of a condition, evaluated on one row of the files table
Matches(condition, f) ==
    /\ IF condition.kind = "NAME"
       THEN UPPER(f.name) = UPPER(condition.arg)
       ELSE UpperLike(f.name, condition.arg)
    /\ condition.pathPattern # <<>> => UpperLike(f.full_path, condition.pathPattern)
    /\ condition.metaType # "" => f.meta_type = condition.metaType

\* ORDER BY file_id
RECURSIVE OrderById(_)
OrderById(ids) ==
    IF ids = {} THEN <<>>
    ELSE LET least == CHOOSE x \in ids : \A y \in ids : x <= y
         IN  <<least>> \o OrderById(ids \ {least})

\* getImgDB().getFileIds(condition), when it does not throw
getFileIds(condition) ==
    OrderById({f.file_id : f \in {g \in FileStore : Matches(condition, g)}})

\* What the environment does to one report(): the conditions (set index,
\* condition index) whose query throws, and the file whose artifact cannot be
\* written (0: none) with the blackboard call that throws for it.
Positions(sets) ==
    UNION {{<<i, j>> : j \in 1..Len(sets[i].conditions)} : i \in 1..Len(sets)}

Faults(sets) ==
    { [query |-> q, badFile |-> w[1], badCall |-> w[2]] :
        q \in {x \in SUBSET Positions(sets) : Cardinality(x) <= MaxQueryFaults},
        w \in {<<0, "none">>} \cup (FileIds \X {"createArtifact", "addAttribute"}) }

\* The artifact createArtifact() made, with the attribute once addAttribute() ran
Artifact(fileId, attributes, pos) ==
    [file_id |-> fileId, attributes |-> attributes, by |-> pos]

\* TskBlackboardAttribute(TSK_SET_NAME, "InterestingFiles", description, name)
SetNameAttribute(fileSet) ==
    [set_name |-> fileSet.name, set_description |-> fileSet.description]

hitsLoopOncePerSet(fileIds, k, fileSet, pos, acc, faults) ==
    LET RECURSIVE Go(_, _)
        Go(n, a) ==
            IF n > Len(fileIds) THEN a
            ELSE IF fileIds[n] = faults.badFile /\ faults.badCall = "createArtifact"
            THEN [a EXCEPT !.threw = TRUE]
            ELSE IF fileIds[n] = faults.badFile
            THEN [a EXCEPT !.threw = TRUE,
                           !.findings = Append(@, Artifact(fileIds[n], <<>>, pos))]
            ELSE IF \E m \in 1..Len(a.findings) :
                        /\ a.findings[m].file_id = fileIds[n]
                        /\ a.findings[m].by[1] = pos[1]
            THEN Go(n + 1, a)
            ELSE Go(n + 1,
                    [a EXCEPT !.findings =
                        Append(@, Artifact(fileIds[n], <<SetNameAttribute(fileSet)>>,
                                           pos))])
    IN  Go(k, acc)

\* for (size_t i = 0; i < fileIds.size(); i++) of report, from index k
RECURSIVE hitsLoop(_, _, _, _, _, _)
hitsLoop(fileIds, k, fileSet, pos, acc, faults) ==
    IF k > Len(fileIds) THEN acc
    ELSE IF fileIds[k] = faults.badFile /\ faults.badCall = "createArtifact"
    THEN [acc EXCEPT !.threw = TRUE]
    ELSE IF fileIds[k] = faults.badFile
    THEN [acc EXCEPT !.threw = TRUE,
                     !.findings = Append(@, Artifact(fileIds[k], <<>>, pos))]
    ELSE hitsLoop(fileIds, k + 1, fileSet, pos,
                  [acc EXCEPT !.findings =
                      Append(@, Artifact(fileIds[k], <<SetNameAttribute(fileSet)>>,
                                         pos))],
                  faults)

catchTskExceptionLogOnly(acc, pos) ==
    [acc EXCEPT !.threw = FALSE, !.errorLog = Append(@, pos)]

\* catch (TskException &ex): log the error, returnCode = FAIL
catchTskException(acc, pos) ==
    [acc EXCEPT !.threw = FALSE, !.errorLog = Append(@, pos), !.returnCode = "FAIL"]

\* The try block of report for one condition, and its catch
tryCondition(fileSet, pos, acc, faults) ==
    LET asked == [acc EXCEPT !.queried = Append(@, pos)]
        done == IF pos \in faults.query
                THEN [asked EXCEPT !.threw = TRUE]
                ELSE hitsLoop(getFileIds(fileSet.conditions[pos[2]]), 1, fileSet, pos,
                              asked, faults)
    IN  IF done.threw THEN catchTskException(done, pos) ELSE done

conditionsLoopTryOutside(sets, i, j, acc, faults) ==
    LET RECURSIVE Go(_, _)
        Go(n, a) ==
            IF n > Len(sets[i].conditions) THEN a
            ELSE LET r == tryCondition(sets[i], <<i, n>>, a, faults)
                 IN  IF Len(r.errorLog) > Len(a.errorLog) THEN r ELSE Go(n + 1, r)
    IN  Go(j, acc)

\* The loop over (*fileSet).conditions of report, from condition j
RECURSIVE conditionsLoop(_, _, _, _, _)
conditionsLoop(sets, i, j, acc, faults) ==
    IF j > Len(sets[i].conditions) THEN acc
    ELSE conditionsLoop(sets, i, j + 1, tryCondition(sets[i], <<i, j>>, acc, faults),
                        faults)

\* The loop over fileSets of report, from set i
RECURSIVE fileSetsLoop(_, _, _, _)
fileSetsLoop(sets, i, acc, faults) ==
    IF i > Len(sets) THEN acc
    ELSE fileSetsLoop(sets, i + 1, conditionsLoop(sets, i, 1, acc, faults), faults)

NoCalls == [queried |-> <<>>, findings |-> <<>>, errorLog |-> <<>>,
            returnCode |-> "OK", threw |-> FALSE]

(***************************************************************************)
(* The module API.                                                         *)
(***************************************************************************)
Init ==
    /\ fileSets = <<>>
    /\ setNames = {}
    /\ defaultSetNumber = 1
    /\ lastOp = "load"
    /\ returnCode = "OK"
    /\ configDoc = <<>>
    /\ preSetNames = {}
    /\ preDefaultSetNumber = 1
    /\ log = <<>>
    /\ queried = <<>>
    /\ findings = <<>>
    /\ errorLog = <<>>
    /\ inits = 0
    /\ likeKind = "none"
    /\ likeText = <<>>
    /\ likeSubject = <<>>
    /\ likePattern = <<>>
    /\ likeResult = FALSE
    /\ likePc = "idle"

\* initialize() when the config file is parsed into doc
initializeParsed(doc) ==
    LET st == compileFileSets(doc, 1,
                              [fileSets |-> clear(fileSets), setNames |-> setNames,
                               defaultSetNumber |-> defaultSetNumber, log |-> <<>>])
    IN  /\ fileSets' = st.fileSets
        /\ setNames' = st.setNames
        /\ defaultSetNumber' = st.defaultSetNumber
        /\ log' = st.log
        /\ configDoc' = doc

\* initialize() when the config file is missing, cannot be opened, or the parser
\* throws SAXParseException: nothing is compiled
initializeNoDocument ==
    /\ fileSets' = clear(fileSets)
    /\ log' = <<>>
    /\ configDoc' = <<>>
    /\ UNCHANGED <<setNames, defaultSetNumber>>

initialize ==
    /\ inits < MaxInits
    /\ inits' = inits + 1
    /\ \/ \E doc \in ConfigDocs : initializeParsed(doc)
       \/ initializeNoDocument
    /\ preSetNames' = setNames
    /\ preDefaultSetNumber' = defaultSetNumber
    /\ lastOp' = "initialize"
    /\ returnCode' = "OK"
    /\ queried' = <<>>
    /\ findings' = <<>>
    /\ errorLog' = <<>>
    /\ UNCHANGED likeVars

report ==
    /\ lastOp' = "report"
    /\ IF fileSets = <<>>
       THEN /\ returnCode' = "FAIL"
            /\ queried' = <<>>
            /\ findings' = <<>>
            /\ errorLog' = <<>>
       ELSE \E faults \in Faults(fileSets) :
                LET r == fileSetsLoop(fileSets, 1, NoCalls, faults)
                IN  /\ returnCode' = r.returnCode
                    /\ queried' = r.queried
                    /\ findings' = r.findings
                    /\ errorLog' = r.errorLog
    /\ UNCHANGED <<fileSets, setNames, defaultSetNumber, configDoc, preSetNames,
                   preDefaultSetNumber, log, inits>>
    /\ UNCHANGED likeVars

finalize ==
    /\ lastOp' = "finalize"
    /\ fileSets' = clear(fileSets)
    /\ returnCode' = "OK"
    /\ queried' = <<>>
    /\ findings' = <<>>
    /\ errorLog' = <<>>
    /\ UNCHANGED <<setNames, defaultSetNumber, configDoc, preSetNames,
                   preDefaultSetNumber, log, inits>>
    /\ UNCHANGED likeVars

Next == initialize \/ report \/ finalize

Spec == Init /\ [][Next]_vars

(***************************************************************************)
(* The pattern builders and the LIKE operator on their own: every match    *)
(* text and every file name / path over LikeAlphabet.                      *)
(***************************************************************************)
LikeAlphabet == {"a", "A", "_", "%", "#", "."}

InitLike ==
    /\ fileSets = <<>>
    /\ setNames = {}
    /\ defaultSetNumber = 1
    /\ lastOp = "load"
    /\ returnCode = "OK"
    /\ configDoc = <<>>
    /\ preSetNames = {}
    /\ preDefaultSetNumber = 1
    /\ log = <<>>
    /\ queried = <<>>
    /\ findings = <<>>
    /\ errorLog = <<>>
    /\ inits = 0
    /\ likeKind \in {"EXTENSION", "pathFilter"}
    /\ likeText \in SeqsUpTo(LikeAlphabet, MaxTextLen) \ {<<>>}
    /\ likeSubject \in SeqsUpTo(LikeAlphabet, MaxSubjectLen)
    /\ likePattern = <<>>
    /\ likeResult = FALSE
    /\ likePc = "input"

\* The pattern compileExtensionSearchCondition / addPathAndTypeFilterOptions puts
\* between the quotes of LIKE UPPER('...')
buildPattern ==
    /\ likePc = "input"
    /\ likePattern' = IF likeKind = "EXTENSION" THEN ExtensionPattern(likeText)
                      ELSE PathFilterPattern(likeText)
    /\ likePc' = "built"
    /\ UNCHANGED <<likeKind, likeText, likeSubject, likeResult>>
    /\ UNCHANGED moduleVars

\* The database evaluates UPPER(name or full_path) LIKE UPPER(pattern) ESCAPE '#'
evaluateLike ==
    /\ likePc = "built"
    /\ likeResult' = UpperLike(likeSubject, likePattern)
    /\ likePc' = "matched"
    /\ UNCHANGED <<likeKind, likeText, likeSubject, likePattern>>
    /\ UNCHANGED moduleVars

NextLike == buildPattern \/ evaluateLike

SpecLike == InitLike /\ [][NextLike]_vars

(***************************************************************************)
(* Vocabulary of the properties.                                           *)
(***************************************************************************)
Range(q) == {q[i] : i \in 1..Len(q)}

HasPathChar(name) == \E i \in 1..Len(name) : name[i] \in PathChars

IsDirectoryAlias(name) == name = <<".">> \/ name = <<".", ".">>

\* The name was recorded by isValidSetName in the last pass
Passed(i) == log[i].outcome \in {"saved", "empty"}

Saved(i) == log[i].outcome = "saved"

\* The place in fileSets of the set saved for element i of configDoc
SavedUpTo(i) == Cardinality({k \in 1..i : log[k].outcome = "saved"})

\* fileSets still holds what the last initialize() compiled
PassHeld == Len(log) = Len(configDoc) /\ Len(fileSets) = SavedUpTo(Len(log))

RECURSIVE FlatPositions(_, _)
FlatPositions(sets, i) ==
    IF i > Len(sets) THEN <<>>
    ELSE [j \in 1..Len(sets[i].conditions) |-> <<i, j>>] \o FlatPositions(sets, i + 1)

\* The findings owed to the condition at position p: one per file identifier the
\* query returns, in query-result order, tagged with the owning set
FindingsOwed(sets, p) ==
    LET ids == getFileIds(sets[p[1]].conditions[p[2]])
    IN  [k \in 1..Len(ids) |->
            [file_id |-> ids[k], set_name |-> sets[p[1]].name,
             set_description |-> sets[p[1]].description]]

\* A recorded artifact as a Finding(file_id, set name, set description); an
\* artifact left without its attribute carries no set
AsFinding(a) ==
    IF a.attributes = <<>>
    THEN [file_id |-> a.file_id, set_name |-> "none", set_description |-> "none"]
    ELSE [file_id |-> a.file_id, set_name |-> a.attributes[1].set_name,
          set_description |-> a.attributes[1].set_description]

FindingsBy(p) ==
    LET mine == SelectSeq(findings, LAMBDA a : a.by = p)
    IN  [k \in 1..Len(mine) |-> AsFinding(mine[k])]

RECURSIVE AllFindingsOwed(_, _, _)
AllFindingsOwed(sets, positions, k) ==
    IF k > Len(positions) THEN <<>>
    ELSE FindingsOwed(sets, positions[k]) \o AllFindingsOwed(sets, positions, k + 1)

IsBlank(text) == \A i \in 1..Len(text) : text[i] \in {" ", "\t", "\n", "\r"}

IsBlankCondition(node) ==
    /\ node.nodeType = "ELEMENT_NODE"
    /\ node.nodeName \in {"NAME", "EXTENSION"}
    /\ IsBlank(node.innerText)

RemoveAt(q, i) == [k \in 1..(Len(q) - 1) |-> IF k < i THEN q[k] ELSE q[k + 1]]

Unnamed(doc) == {i \in 1..Len(doc) : doc[i].name = <<>>}

Usable(definition) == compileConditions(definition.childNodes, 1, <<>>) # <<>>

Str_Unnamed_2 == <<"U", "n", "n", "a", "m", "e", "d", "_", "2">>

(***************************************************************************)
(* C1.  The name-uniqueness tracker is reset on every initialize: a set is *)
(* rejected as a duplicate only for a name accepted earlier in the same    *)
(* pass, and the compiled list is the one the pass produces from an empty  *)
(* tracker.  The code never empties the static setNames, so this fails.    *)
(***************************************************************************)
C1_TrackerResetOnInitialize ==
    PassHeld =>
        /\ \A i \in 1..Len(log) :
              log[i].outcome = "duplicate" =>
                  \E k \in 1..(i - 1) : log[k].name = log[i].name /\ Passed(k)
        /\ fileSets =
              compileFileSets(configDoc, 1,
                              [fileSets |-> <<>>, setNames |-> {},
                               defaultSetNumber |-> preDefaultSetNumber,
                               log |-> <<>>]).fileSets

(***************************************************************************)
(* C2.  report() returns FAIL exactly when the compiled list is empty or   *)
(* the catch block ran for at least one condition of the run; so a run     *)
(* over a non-empty list whose queries match nothing returns OK.           *)
(***************************************************************************)
C2_ReportFailsIffEmptyOrError ==
    lastOp = "report" =>
        (returnCode = "FAIL" <=> (fileSets = <<>> \/ errorLog # <<>>))

C2_Witness_NoMatchesIsOK ==
    /\ lastOp = "report"
    /\ fileSets # <<>>
    /\ queried # <<>>
    /\ findings = <<>>
    /\ errorLog = <<>>
    /\ returnCode = "OK"

(***************************************************************************)
(* C3.  An element whose name has a path character, is "." or "..", or     *)
(* repeats a name accepted earlier in the pass, gets no set in the         *)
(* compiled list and none of its conditions is compiled or queried; the    *)
(* names in the compiled list are pairwise distinct, free of path          *)
(* characters and no directory alias.                                      *)
(***************************************************************************)
C3_InvalidOrDuplicateNamesDropped ==
    /\ \A k \in 1..Len(fileSets) :
          /\ ~HasPathChar(fileSets[k].name)
          /\ ~IsDirectoryAlias(fileSets[k].name)
          /\ \A m \in 1..Len(fileSets) : fileSets[m].name = fileSets[k].name => m = k
    /\ Len(log) = Len(configDoc)
    /\ \A i \in 1..Len(log) :
          (\/ HasPathChar(log[i].name)
           \/ IsDirectoryAlias(log[i].name)
           \/ \E k \in 1..(i - 1) : log[k].name = log[i].name /\ Passed(k))
          => ~Passed(i)
    /\ Len(fileSets) <= SavedUpTo(Len(log))
    /\ Range(queried) \subseteq Positions(fileSets)

C3_Witness_DuplicateDropped ==
    /\ lastOp = "report"
    /\ Len(log) = 2
    /\ log[1].outcome = "saved"
    /\ log[2].outcome = "duplicate"
    /\ log[2].name = log[1].name
    /\ configDoc[2].childNodes # <<>>
    /\ Len(fileSets) = 1
    /\ queried # <<>>

(***************************************************************************)
(* C4.  Match text with '%', '_' or '#' is matched literally: the built    *)
(* pattern, under LIKE with ESCAPE '#' on upper-cased operands, matches a  *)
(* file name exactly when the dotted extension is a case-insensitive       *)
(* suffix of it, and a path exactly when the pathFilter value is a         *)
(* case-insensitive substring of it.                                       *)
(***************************************************************************)
C4_LikeMatchesLiterally ==
    likePc = "matched" =>
        likeResult =
            IF likeKind = "EXTENSION"
            THEN IsSuffix(UPPER(IF likeText[1] = "." THEN likeText
                                ELSE <<".">> \o likeText),
                          UPPER(likeSubject))
            ELSE IsSubstring(UPPER(likeText), UPPER(likeSubject))

\* extension "_" against a file named "a.a": the underscore is no wildcard
C4_Witness_UnderscoreNotWildcard ==
    /\ likePc = "matched"
    /\ likeKind = "EXTENSION"
    /\ likeText = <<"_">>
    /\ likeSubject = <<"a", ".", "a">>
    /\ likePattern = <<"%", ".", "#", "_">>
    /\ likeResult = FALSE

(***************************************************************************)
(* C5.  An error on one condition does not stop the run: in a run with an  *)
(* error every condition of every compiled set is queried exactly once,    *)
(* in set order then condition order (so the conditions after the failing  *)
(* one are queried and the failing one is not retried), and every          *)
(* condition that did not fail has all its matches recorded.               *)
(***************************************************************************)
C5_ErrorDoesNotStopRun ==
    (lastOp = "report" /\ errorLog # <<>>) =>
        /\ queried = FlatPositions(fileSets, 1)
        /\ \A p \in Positions(fileSets) :
              p \notin Range(errorLog) => FindingsBy(p) = FindingsOwed(fileSets, p)

C5_Witness_LaterConditionRecorded ==
    /\ lastOp = "report"
    /\ Len(queried) >= 2
    /\ errorLog = <<queried[1]>>
    /\ \E k \in 1..Len(findings) :
          findings[k].by = queried[Len(queried)] /\ findings[k].attributes # <<>>

(***************************************************************************)
(* C6.  A NAME or EXTENSION element whose inner text is empty or only      *)
(* whitespace produces no condition, and the conditions of its siblings    *)
(* are those compiled without it.  The code tests only for the empty       *)
(* string, so whitespace-only text is compiled into a condition.           *)
(***************************************************************************)
C6_BlankTextYieldsNoCondition ==
    PassHeld =>
        \A i \in 1..Len(configDoc) :
            LET kept == SelectSeq(configDoc[i].childNodes,
                                  LAMBDA node : ~IsBlankCondition(node))
            IN  /\ Saved(i) =>
                      fileSets[SavedUpTo(i)].conditions = compileConditions(kept, 1, <<>>)
                /\ log[i].outcome = "empty" => compileConditions(kept, 1, <<>>) = <<>>

(***************************************************************************)
(* C7.  A dropped rule set never makes another one dropped: every other    *)
(* element that would be saved if the dropped element were not in the      *)
(* document is saved.  The code records a name as taken before it finds    *)
(* the set empty, so an empty set makes a later set of the same name a     *)
(* duplicate.                                                              *)
(***************************************************************************)
C7_DroppedSetNeverDropsAnother ==
    Len(log) = Len(configDoc) =>
        \A i \in 1..Len(configDoc) :
            ~Saved(i) =>
                LET without ==
                        compileFileSets(RemoveAt(configDoc, i), 1,
                                        [fileSets |-> <<>>, setNames |-> preSetNames,
                                         defaultSetNumber |-> preDefaultSetNumber,
                                         log |-> <<>>])
                IN  \A j \in 1..Len(configDoc) \ {i} :
                        without.log[IF j < i THEN j ELSE j - 1].outcome = "saved"
                            => Saved(j)

(***************************************************************************)
(* C8 as claimed.  In any pass, two unnamed rule sets, each with a usable  *)
(* condition, are compiled as Unnamed_1 then Unnamed_2 and both are in     *)
(* the compiled list.                                                      *)
(***************************************************************************)
C8_UnnamedAreOneAndTwo ==
    (PassHeld /\ Cardinality(Unnamed(configDoc)) = 2
        /\ \A i \in Unnamed(configDoc) : Usable(configDoc[i])) =>
        LET first == CHOOSE i \in Unnamed(configDoc) :
                        \A k \in Unnamed(configDoc) : i <= k
            second == CHOOSE i \in Unnamed(configDoc) :
                        \A k \in Unnamed(configDoc) : k <= i
        IN  /\ Saved(first) /\ fileSets[SavedUpTo(first)].name = Str_Unnamed_1
            /\ Saved(second) /\ fileSets[SavedUpTo(second)].name = Str_Unnamed_2

(***************************************************************************)
(* C8 as amended.  The unnamed rule sets of a pass are named Unnamed_N     *)
(* with consecutive N in document order, continuing the process-wide       *)
(* counter, which starts at 1 and initialize never resets: Unnamed_1 then  *)
(* Unnamed_2 in a first pass, later numbers in later passes.  Two default  *)
(* names never collide with each other, and an unnamed set with a usable   *)
(* condition is in the compiled list under its default name unless that    *)
(* name was already recorded for an explicitly named set.                  *)
(***************************************************************************)
C8_UnnamedNumberedConsecutively ==
    LET before(i) == Cardinality({k \in Unnamed(configDoc) : k < i})
        explicit(i) == {configDoc[k].name : k \in {m \in 1..(i - 1) : Passed(m)}}
    IN  /\ Len(log) = Len(configDoc)
        /\ defaultSetNumber = preDefaultSetNumber + Cardinality(Unnamed(configDoc))
        /\ inits <= 1 => preDefaultSetNumber = 1
        /\ \A i \in Unnamed(configDoc) :
              /\ log[i].name = DefaultName(preDefaultSetNumber + before(i))
              /\ (preDefaultSetNumber = 1 /\ before(i) = 0) => log[i].name = Str_Unnamed_1
              /\ (preDefaultSetNumber = 1 /\ before(i) = 1) => log[i].name = Str_Unnamed_2
              /\ \A k \in Unnamed(configDoc) : log[k].name = log[i].name => k = i
              /\ (Usable(configDoc[i]) /\ log[i].name \notin preSetNames \cup explicit(i))
                    => /\ Saved(i)
                       /\ PassHeld => fileSets[SavedUpTo(i)].name = log[i].name

C8_Witness_TwoUnnamedSecondPass ==
    /\ inits = 2
    /\ preDefaultSetNumber > 1
    /\ Unnamed(configDoc) = {1, 2}
    /\ Len(fileSets) = 2
    /\ fileSets[1].name = DefaultName(preDefaultSetNumber)
    /\ fileSets[2].name = DefaultName(preDefaultSetNumber + 1)

(***************************************************************************)
(* C9.  In a run without an error the findings recorded are exactly one    *)
(* Finding(file_id, set name, set description) per file identifier         *)
(* returned per condition, in compiled-set order, then condition order,    *)
(* then query-result order: nothing is deduplicated, and every finding     *)
(* carries the name and description of the set that owns the condition.    *)
(***************************************************************************)
C9_OneFindingPerHitPerCondition ==
    (lastOp = "report" /\ errorLog = <<>>) =>
        [k \in 1..Len(findings) |-> AsFinding(findings[k])]
            = AllFindingsOwed(fileSets, FlatPositions(fileSets, 1), 1)

\* one file found by two conditions of the same set, in a run over two sets
C9_Witness_FileFoundTwiceInSet ==
    /\ lastOp = "report"
    /\ errorLog = <<>>
    /\ Len(fileSets) = 2
    /\ fileSets[1].description # fileSets[2].description
    /\ \E k, m \in 1..Len(findings) :
          /\ k < m
          /\ findings[k].file_id = findings[m].file_id
          /\ findings[k].by[1] = findings[m].by[1]
          /\ findings[k].by[2] # findings[m].by[2]

(***************************************************************************)
(* C10.  report leaves the compiled list unchanged; finalize empties it,   *)
(* so that a report that follows returns FAIL; initialize leaves in it     *)
(* only sets compiled from its own document, in document order, nothing    *)
(* carried over from an earlier pass.                                      *)
(***************************************************************************)
FromDefinition(fileSet, definition) ==
    /\ fileSet.description = definition.description
    /\ fileSet.conditions = compileConditions(definition.childNodes, 1, <<>>)
    /\ IF definition.name # <<>> THEN fileSet.name = definition.name
       ELSE \E n \in 1..(MaxSets * MaxInits) : fileSet.name = DefaultName(n)

OnlyFrom(sets, doc) ==
    \E f \in [1..Len(sets) -> 1..Len(doc)] :
        /\ \A k, m \in 1..Len(sets) : k < m => f[k] < f[m]
        /\ \A k \in 1..Len(sets) : FromDefinition(sets[k], doc[f[k]])

C10_CompiledListLifecycle ==
    [][/\ lastOp' = "report" => fileSets' = fileSets
       /\ lastOp' = "finalize" => fileSets' = <<>>
       /\ (lastOp = "finalize" /\ lastOp' = "report") => returnCode' = "FAIL"
       /\ lastOp' = "initialize" => OnlyFrom(fileSets', configDoc')]_vars

\* report() returned FAIL after finalize() emptied a list that initialize() had filled
C10_Witness_ReportAfterFinalizeFails ==
    /\ lastOp = "report"
    /\ returnCode = "FAIL"
    /\ fileSets = <<>>
    /\ \E i \in 1..Len(log) : log[i].outcome = "saved"

(***************************************************************************)
(* C11.  Every set in the compiled list has at least one condition.  A     *)
(* rule set whose children yield none (no children, or only nodes that     *)
(* are no elements, elements of unrecognized tags, and NAME / EXTENSION    *)
(* elements with empty text) is never appended to the list, and no query   *)
(* and no finding of a later report belongs to it.                         *)
(***************************************************************************)
YieldsNoCondition(node) ==
    \/ node.nodeType # "ELEMENT_NODE"
    \/ node.nodeName \notin {"NAME", "EXTENSION"}
    \/ node.innerText = <<>>

ZeroConditions(definition) ==
    \A n \in 1..Len(definition.childNodes) : YieldsNoCondition(definition.childNodes[n])

C11_NoSetWithoutConditions ==
    /\ \A k \in 1..Len(fileSets) : fileSets[k].conditions # <<>>
    /\ Len(log) = Len(configDoc)
    /\ Len(fileSets) <= SavedUpTo(Len(log))
    /\ \A i \in 1..Len(configDoc) :
          ZeroConditions(configDoc[i]) =>
              /\ ~Saved(i)
              /\ log[i].outcome = "empty" =>
                    /\ \A k \in 1..Len(fileSets) : fileSets[k].name # log[i].name
                    /\ \A k \in 1..Len(findings) :
                          findings[k].attributes # <<>> =>
                              findings[k].attributes[1].set_name # log[i].name
    /\ Range(queried) \subseteq Positions(fileSets)
    /\ \A k \in 1..Len(findings) : findings[k].by \in Range(queried)

\* a report over a list compiled from one set with conditions and one with only
\* an unrecognized tag and empty-text conditions
C11_Witness_EmptySetNotReported ==
    /\ lastOp = "report"
    /\ Len(configDoc) = 2
    /\ ZeroConditions(configDoc[1])
    /\ configDoc[1].childNodes # <<>>
    /\ log[1].outcome = "empty"
    /\ log[2].outcome = "saved"
    /\ Len(fileSets) = 1
    /\ Len(queried) = Len(fileSets[1].conditions)
    /\ findings # <<>>

====
